---- MODULE Spec2Model ----
(***************************************************************************)
(* Service-record lifecycle of app/routers/services.py with the blob-store *)
(* adapter of app/utils/cloudinary.py and the list cache of                *)
(* app/utils/cache.py.                                                     *)
(*                                                                         *)
(* Strings are TLC strings; a reference URL is parsed character by         *)
(* character exactly as extract_public_id does.  A service record keeps    *)
(* the two fields the handlers treat differently: an ordinary data field   *)
(* (name, standing for name/description/duration/price/salon_id, which the *)
(* handlers copy alike) and image_url.                                     *)
(***************************************************************************)
EXTENDS Integers, Sequences, FiniteSets, TLC

VARIABLES
    store,      \* Record Store: committed service rows, in primary-key order
    nextId,     \* next service_id the store assigns
    blobs,      \* Blob Store: public ids of the assets that exist on the host
    nextBlob,   \* number of the next asset the host creates
    cache,      \* List Cache: [valid, content]
    pc,         \* per request task: the await point it is suspended at
    req,        \* per request task: the inbound request
    loc,        \* per request task: the handler's local variables
    resp,       \* per request task: the outcome returned to the caller
    hist,       \* history: what the claims compare against
    ex          \* extract_public_id applied to a drawn reference

vars == <<store, nextId, blobs, nextBlob, cache, pc, req, loc, resp, hist, ex>>

(***************************************************************************)
(* Bounds                                                                  *)
(***************************************************************************)
MaxId == 2          \* service ids the store hands out
MaxBlobs == 2       \* assets the host creates
MaxRequests == 4    \* requests received

\* request tasks; Solo: the one task of a server that handles one request at a time
Procs == {1, 2}
Solo == {1}
\* two concurrent clients: task 1 lists, task 2 mutates
Readers == {1}
Writers == {2}

\* Python's None.  No reference or id of the model contains '<'.
None == "<None>"

(***************************************************************************)
(* Python string operations used by the source                             *)
(***************************************************************************)
\* sub in s
Contains(s, sub) ==
    \E i \in 1..(Len(s) - Len(sub) + 1) : SubSeq(s, i, i + Len(sub) - 1) = sub

\* s.startswith(pre)
StartsWith(s, pre) == Len(s) >= Len(pre) /\ SubSeq(s, 1, Len(pre)) = pre

\* index of the first occurrence of the character c in s, 0 when absent
FirstChar(s, c) ==
    IF \E i \in 1..Len(s) : SubSeq(s, i, i) = c
    THEN CHOOSE i \in 1..Len(s) :
            /\ SubSeq(s, i, i) = c
            /\ \A j \in 1..(i - 1) : SubSeq(s, j, j) # c
    ELSE 0

\* s.split(c)
RECURSIVE Split(_, _)
Split(s, c) ==
    LET i == FirstChar(s, c)
    IN  IF i = 0 THEN <<s>>
        ELSE <<SubSeq(s, 1, i - 1)>> \o Split(SubSeq(s, i + 1, Len(s)), c)

\* c.join(parts)
RECURSIVE Join(_, _)
Join(parts, c) ==
    IF Len(parts) = 0 THEN ""
    ELSE IF Len(parts) = 1 THEN parts[1]
    ELSE parts[1] \o c \o Join(Tail(parts), c)

\* parts.index(x), 0 standing for ValueError
Index(parts, x) ==
    IF \E i \in 1..Len(parts) : parts[i] = x
    THEN CHOOSE i \in 1..Len(parts) :
            /\ parts[i] = x
            /\ \A j \in 1..(i - 1) : parts[j] # x
    ELSE 0

\* Python truthiness of an Optional[str]
Truthy(s) == s # None /\ s # ""

\* extract_public_id keeping the version segment
extract_public_id_keeps_version(url) ==
    IF ~Truthy(url) THEN None
    ELSE IF ~Contains(url, "res.cloudinary.com") THEN Split(url, ".")[1]
    ELSE
        LET parts == Split(url, "/")
            upload_index == Index(parts, "upload")
            public_id_parts == SubSeq(parts, upload_index + 1, Len(parts))
        IN  IF upload_index = 0 THEN None
            ELSE IF Len(public_id_parts) = 0 THEN None
            ELSE Split(Join(public_id_parts, "/"), ".")[1]

(***************************************************************************)
(* app/utils/cloudinary.py: extract_public_id                              *)
(***************************************************************************)
extract_public_id(url) ==
    IF ~Truthy(url) THEN None
    ELSE IF ~Contains(url, "res.cloudinary.com") THEN Split(url, ".")[1]
    ELSE
        LET parts == Split(url, "/")
            upload_index == Index(parts, "upload")
            public_id_parts == SubSeq(parts, upload_index + 1, Len(parts))
        IN  IF upload_index = 0 THEN None                \* ValueError, caught
            ELSE IF Len(public_id_parts) = 0 THEN None   \* IndexError, caught
            ELSE
                LET rest == IF StartsWith(public_id_parts[1], "v")
                            THEN Tail(public_id_parts)
                            ELSE public_id_parts
                IN  Split(Join(rest, "/"), ".")[1]

(***************************************************************************)
(* The media host.  The n-th asset it creates, under the folder the caller  *)
(* names, gets a fresh public id and the host's canonical secure URL.      *)
(***************************************************************************)
Digit(n) == SubSeq("0123456789", n + 1, n + 1)

\* the folders the handlers upload to
UploadFolders == {"services/images", "services/icons"}

public_id_of(n, folder) == folder \o "/b" \o Digit(n)

secure_url(n, folder) ==
    "https://res.cloudinary.com/demo/image/upload/v" \o Digit(n) \o "/"
        \o public_id_of(n, folder) \o ".png"

\* upload_image_cloudinary, the host accepting the payload: the dict returned
upload_image_cloudinary(n, folder) ==
    [public_id |-> public_id_of(n, folder), url |-> secure_url(n, folder),
     format |-> "png"]

\* delete_image_from_cloudinary(public_id): the outcomes the host allows.
\* destroy answers 'ok' only for an asset that exists (True, asset removed);
\* any other answer, and any exception, is reported as False.
delete_image_from_cloudinary(public_id) ==
    {[ret |-> FALSE, blobs |-> blobs]}
        \cup (IF public_id \in blobs
              THEN {[ret |-> TRUE, blobs |-> blobs \ {public_id}]}
              ELSE {})

(***************************************************************************)
(* app/utils/cache.py (List Cache): get / populate / invalidate            *)
(***************************************************************************)
get_cached_service == IF cache.valid THEN cache.content ELSE <<>>

cache_services_response(services) == [valid |-> TRUE, content |-> services]

invalidate_services_cache == [valid |-> FALSE, content |-> <<>>]

(***************************************************************************)
(* Record Store queries                                                    *)
(***************************************************************************)
NoRec == [service_id |-> 0, name |-> None, image_url |-> None]

\* db.query(models.Service).filter(service_id == id).first()
First(id) ==
    IF \E i \in 1..Len(store) : store[i].service_id = id
    THEN store[CHOOSE i \in 1..Len(store) : store[i].service_id = id]
    ELSE NoRec

Min(a, b) == IF a < b THEN a ELSE b

Max(a, b) == IF a > b THEN a ELSE b

\* seq[start:stop]: a negative index counts from the end, both are clipped
Slice(seq, start, stop) ==
    LET norm(i) == IF i < 0 THEN Max(i + Len(seq), 0) ELSE Min(i, Len(seq))
    IN  SubSeq(seq, norm(start) + 1, norm(stop))

\* the rows of OFFSET offset LIMIT limit over seq, for an engine that answers:
\* a negative limit is no limit
Rows(seq, offset, limit) ==
    IF limit < 0 THEN SubSeq(seq, offset + 1, Len(seq))
    ELSE SubSeq(seq, offset + 1, Min(offset + limit, Len(seq)))

\* db.query(models.Service).offset(offset).limit(limit).all(): the outcomes the
\* database engine allows.  A negative limit is no limit for one engine and
\* an error, raised out of the handler, for another.
query_all(offset, limit) ==
    {[error |-> FALSE, rows |-> Rows(store, offset, limit)]}
        \cup (IF limit < 0 THEN {[error |-> TRUE, rows |-> <<>>]} ELSE {})

RECURSIVE Without(_, _)
Without(seq, id) ==
    IF Len(seq) = 0 THEN <<>>
    ELSE IF Head(seq).service_id = id THEN Without(Tail(seq), id)
    ELSE <<Head(seq)>> \o Without(Tail(seq), id)

(***************************************************************************)
(* Requests                                                                *)
(***************************************************************************)
CreateNames == {"n1"}
UpdateNames == {None, "n2"}
Skips == {-1, 1}
Limits == {-1, 1, 101}

\* public_id path parameters tried on DELETE /services/images/{public_id}
\* (the route takes one path segment, so none of them holds a '/')
ImageIds == {"b1.png", "res.cloudinary.com", "http-b1"}

NoReq ==
    [op |-> "none", service_id |-> 0, name |-> None, image_base64 |-> FALSE,
     remove_image |-> FALSE, skip |-> 0, limit |-> 0, public_id |-> None,
     is_icon |-> FALSE]

NoLoc ==
    [db_service |-> NoRec, loaded |-> NoRec, service_data |-> NoRec,
     update_name |-> None, update_image |-> FALSE, update_image_url |-> None,
     skip |-> 0, limit |-> 0, results |-> <<>>,
     public_id |-> None, deletion_results |-> <<>>,
     \* history of this request (store0: the rows when a create or update arrived)
     store0 |-> <<>>, attempts |-> 0, del_false |-> FALSE, deleted_id |-> None,
     upload_failed |-> FALSE, new_url |-> None, hit |-> FALSE,
     after_mutation |-> FALSE, invalidated |-> FALSE]

NoResp ==
    [status |-> "none", body |-> <<>>, success |-> FALSE, count |-> 0,
     public_id |-> None, url |-> None]

\* popFull: what was cached last was the full listing of the store at that time
NoHist ==
    [started |-> 0, popFull |-> TRUE, sinceMutation |-> FALSE, raceStale |-> FALSE]

NoEx == [kind |-> "none", url |-> "", out |-> "unset"]

Init ==
    /\ store = <<>>
    /\ nextId = 1
    /\ blobs = {}
    /\ nextBlob = 1
    /\ cache = invalidate_services_cache
    /\ pc = [p \in Procs |-> "idle"]
    /\ req = [p \in Procs |-> NoReq]
    /\ loc = [p \in Procs |-> NoLoc]
    /\ resp = [p \in Procs |-> NoResp]
    /\ hist = NoHist
    /\ ex = NoEx

\* A task starts a request; solo: only when no other request is being handled.
Free(p, solo) ==
    /\ pc[p] = "idle"
    /\ hist.started < MaxRequests
    /\ solo => \A q \in Procs : pc[q] = "idle"

\* the handler raises HTTPException(status)
Raise(p, status) ==
    /\ pc' = [pc EXCEPT ![p] = "done"]
    /\ resp' = [resp EXCEPT ![p] = [NoResp EXCEPT !.status = status]]

\* an invalidation is seen by every list request waiting to populate
Invalidated(l) ==
    [q \in Procs |->
        IF pc[q] = "list_populate" THEN [l[q] EXCEPT !.invalidated = TRUE] ELSE l[q]]

(***************************************************************************)
(* create_service                                                          *)
(***************************************************************************)
\* lines 38-46: build service_data, upload the image if one is supplied
create_service(p, solo) ==
    /\ Free(p, solo)
    /\ nextId + Cardinality({q \in Procs : pc[q] = "create_commit"}) <= MaxId
    /\ \E name \in CreateNames, image \in BOOLEAN :
        /\ req' = [req EXCEPT ![p] =
                [NoReq EXCEPT !.op = "create", !.name = name, !.image_base64 = image]]
        /\ \/ /\ ~image
              /\ loc' = [loc EXCEPT ![p] =
                    [NoLoc EXCEPT !.store0 = store,
                                  !.service_data = [NoRec EXCEPT !.name = name]]]
              /\ pc' = [pc EXCEPT ![p] = "create_commit"]
              /\ UNCHANGED <<blobs, nextBlob, resp>>
           \/ /\ image
              /\ nextBlob <= MaxBlobs
              /\ LET image_result == upload_image_cloudinary(nextBlob, "services/images")
                 IN  /\ blobs' = blobs \cup {image_result.public_id}
                     /\ nextBlob' = nextBlob + 1
                     /\ loc' = [loc EXCEPT ![p] =
                            [NoLoc EXCEPT !.store0 = store,
                                          !.new_url = image_result.url,
                                          !.service_data =
                                            [NoRec EXCEPT !.name = name,
                                                          !.image_url = image_result.url]]]
              /\ pc' = [pc EXCEPT ![p] = "create_commit"]
              /\ UNCHANGED resp
           \/ /\ image
              /\ loc' = [loc EXCEPT ![p] =
                    [NoLoc EXCEPT !.store0 = store, !.upload_failed = TRUE]]
              /\ Raise(p, "400")
              /\ UNCHANGED <<blobs, nextBlob>>
    /\ hist' = [hist EXCEPT !.started = @ + 1]
    /\ UNCHANGED <<store, nextId, cache, ex>>

\* lines 48-51: insert, commit, refresh
create_commit(p) ==
    /\ pc[p] = "create_commit"
    /\ LET db_service == [loc[p].service_data EXCEPT !.service_id = nextId]
       IN  /\ store' = Append(store, db_service)
           /\ loc' = [loc EXCEPT ![p].db_service = db_service]
    /\ nextId' = nextId + 1
    /\ pc' = [pc EXCEPT ![p] = "create_invalidate"]
    /\ UNCHANGED <<blobs, nextBlob, cache, req, resp, hist, ex>>

\* lines 52-53: invalidate the list cache, return the record
create_invalidate(p) ==
    /\ pc[p] = "create_invalidate"
    /\ cache' = invalidate_services_cache
    /\ loc' = Invalidated(loc)
    /\ hist' = [hist EXCEPT !.popFull = TRUE, !.sinceMutation = TRUE, !.raceStale = FALSE]
    /\ resp' = [resp EXCEPT ![p] =
            [NoResp EXCEPT !.status = "ok", !.body = <<loc[p].db_service>>]]
    /\ pc' = [pc EXCEPT ![p] = "done"]
    /\ UNCHANGED <<store, nextId, blobs, nextBlob, req, ex>>

(***************************************************************************)
(* read_services                                                           *)
(***************************************************************************)
\* lines 68-76: clamp the pagination, try the cache
read_services(p, solo) ==
    /\ Free(p, solo)
    /\ \E skip0 \in Skips, limit0 \in Limits :
        LET limit == IF limit0 > 100 THEN 100 ELSE limit0
            skip == IF skip0 < 0 THEN 0 ELSE skip0
            cached_services == get_cached_service
            l == [NoLoc EXCEPT !.skip = skip, !.limit = limit,
                               !.after_mutation = hist.sinceMutation]
        IN  /\ req' = [req EXCEPT ![p] =
                    [NoReq EXCEPT !.op = "list", !.skip = skip0, !.limit = limit0]]
            /\ IF Len(cached_services) > 0
               THEN /\ loc' = [loc EXCEPT ![p] = [l EXCEPT !.hit = TRUE]]
                    /\ resp' = [resp EXCEPT ![p] =
                            [NoResp EXCEPT !.status = "ok",
                                           !.body = Slice(cached_services, skip, skip + limit)]]
                    /\ pc' = [pc EXCEPT ![p] = "done"]
               ELSE /\ loc' = [loc EXCEPT ![p] = l]
                    /\ pc' = [pc EXCEPT ![p] = "list_query"]
                    /\ UNCHANGED resp
    /\ hist' = [hist EXCEPT !.started = @ + 1, !.sinceMutation = FALSE]
    /\ UNCHANGED <<store, nextId, blobs, nextBlob, cache, ex>>

\* lines 78-84: query the page; an empty page is a 404
list_query(p) ==
    /\ pc[p] = "list_query"
    /\ \E o \in query_all(loc[p].skip, loc[p].limit) :
        LET results == o.rows
        IN  IF o.error
            THEN /\ Raise(p, "500")
                 /\ UNCHANGED loc
            ELSE IF Len(results) = 0
            THEN /\ Raise(p, "404")
                 /\ UNCHANGED loc
            ELSE /\ loc' = [loc EXCEPT ![p].results = results]
                 /\ pc' = [pc EXCEPT ![p] = "list_populate"]
                 /\ UNCHANGED resp
    /\ UNCHANGED <<store, nextId, blobs, nextBlob, cache, req, hist, ex>>

\* list_populate caching a page queried anew instead of the one it returns
list_populate_requeried(p) ==
    /\ pc[p] = "list_populate"
    /\ cache' = cache_services_response(Rows(store, loc[p].skip, loc[p].limit))
    /\ hist' = [hist EXCEPT
            !.popFull = (Rows(store, loc[p].skip, loc[p].limit) = store),
            !.raceStale = FALSE]
    /\ resp' = [resp EXCEPT ![p] =
            [NoResp EXCEPT !.status = "ok", !.body = loc[p].results]]
    /\ pc' = [pc EXCEPT ![p] = "done"]
    /\ UNCHANGED <<store, nextId, blobs, nextBlob, req, loc, ex>>

\* lines 86-103: cache the serialized page, return it
list_populate(p) ==
    /\ pc[p] = "list_populate"
    /\ cache' = cache_services_response(loc[p].results)
    /\ hist' = [hist EXCEPT
            !.popFull = (loc[p].results = store),
            !.raceStale = /\ loc[p].invalidated
                          /\ loc[p].results # Rows(store, loc[p].skip, loc[p].limit)]
    /\ resp' = [resp EXCEPT ![p] =
            [NoResp EXCEPT !.status = "ok", !.body = loc[p].results]]
    /\ pc' = [pc EXCEPT ![p] = "done"]
    /\ UNCHANGED <<store, nextId, blobs, nextBlob, req, loc, ex>>

\* get_db, finally: the session is closed and the response delivered
get_db(p) ==
    /\ pc[p] = "done"
    /\ pc' = [pc EXCEPT ![p] = "idle"]
    /\ req' = [req EXCEPT ![p] = NoReq]
    /\ loc' = [loc EXCEPT ![p] = NoLoc]
    /\ resp' = [resp EXCEPT ![p] = NoResp]
    /\ UNCHANGED <<store, nextId, blobs, nextBlob, cache, hist, ex>>

(***************************************************************************)
(* update_service                                                          *)
(***************************************************************************)
\* lines 130-139: fetch the record, set the payload's non-null fields on it
update_service(p, solo) ==
    /\ Free(p, solo)
    /\ \E id \in 1..MaxId, name \in UpdateNames,
          image \in BOOLEAN, remove \in BOOLEAN :
        LET db_service == First(id)
        IN  /\ req' = [req EXCEPT ![p] =
                    [NoReq EXCEPT !.op = "update", !.service_id = id, !.name = name,
                                  !.image_base64 = image, !.remove_image = remove]]
            /\ IF db_service = NoRec
               THEN /\ loc' = [loc EXCEPT ![p] = [NoLoc EXCEPT !.store0 = store]]
                    /\ Raise(p, "404")
               ELSE /\ loc' = [loc EXCEPT ![p] =
                        [NoLoc EXCEPT
                            !.store0 = store,
                            !.loaded = db_service,
                            !.db_service =
                                IF name # None
                                THEN [db_service EXCEPT !.name = name]
                                ELSE db_service,
                            !.update_name = name]]
                    /\ pc' = [pc EXCEPT ![p] = "update_remove"]
                    /\ UNCHANGED resp
    /\ hist' = [hist EXCEPT !.started = @ + 1]
    /\ UNCHANGED <<store, nextId, blobs, nextBlob, cache, ex>>

\* update_remove clearing the reference whatever the deletion returned
update_remove_clears_always(p) ==
    /\ pc[p] = "update_remove"
    /\ LET public_id == extract_public_id(loc[p].db_service.image_url)
       IN  IF req[p].remove_image /\ Truthy(loc[p].db_service.image_url)
                /\ Truthy(public_id)
           THEN \E o \in delete_image_from_cloudinary(public_id) :
                    /\ blobs' = o.blobs
                    /\ loc' = [loc EXCEPT ![p] =
                            [@ EXCEPT !.public_id = public_id,
                                      !.attempts = @ + 1,
                                      !.deleted_id = IF o.ret THEN public_id ELSE None,
                                      !.del_false = ~o.ret,
                                      !.update_image = TRUE,
                                      !.update_image_url = None]]
           ELSE UNCHANGED <<blobs, loc>>
    /\ pc' = [pc EXCEPT ![p] = "update_upload"]
    /\ UNCHANGED <<store, nextId, nextBlob, cache, req, resp, hist, ex>>

\* lines 142-148: remove_image: delete the blob, clear the reference if deleted
update_remove(p) ==
    /\ pc[p] = "update_remove"
    /\ LET public_id == extract_public_id(loc[p].db_service.image_url)
       IN  IF req[p].remove_image /\ Truthy(loc[p].db_service.image_url)
                /\ Truthy(public_id)
           THEN \E o \in delete_image_from_cloudinary(public_id) :
                    /\ blobs' = o.blobs
                    /\ loc' = [loc EXCEPT ![p] =
                            IF o.ret
                            THEN [@ EXCEPT !.public_id = public_id,
                                           !.attempts = @ + 1,
                                           !.deleted_id = public_id,
                                           !.update_image = TRUE,
                                           !.update_image_url = None]
                            ELSE [@ EXCEPT !.public_id = public_id,
                                           !.attempts = @ + 1,
                                           !.del_false = TRUE]]
           ELSE UNCHANGED <<blobs, loc>>
    /\ pc' = [pc EXCEPT ![p] = "update_upload"]
    /\ UNCHANGED <<store, nextId, nextBlob, cache, req, resp, hist, ex>>

\* update_upload with the session committed although the upload failed
update_upload_commits_on_error(p) ==
    /\ pc[p] = "update_upload"
    /\ \/ /\ ~req[p].image_base64
          /\ pc' = [pc EXCEPT ![p] = "update_commit"]
          /\ UNCHANGED <<store, blobs, nextBlob, loc, resp>>
       \/ /\ req[p].image_base64
          /\ nextBlob <= MaxBlobs
          /\ LET result == upload_image_cloudinary(nextBlob, "services/images")
             IN  /\ blobs' = blobs \cup {result.public_id}
                 /\ nextBlob' = nextBlob + 1
                 /\ loc' = [loc EXCEPT ![p].update_image = TRUE,
                                       ![p].update_image_url = result.url,
                                       ![p].new_url = result.url]
          /\ pc' = [pc EXCEPT ![p] = "update_commit"]
          /\ UNCHANGED <<store, resp>>
       \/ /\ req[p].image_base64
          /\ loc' = [loc EXCEPT ![p].upload_failed = TRUE]
          /\ store' = [i \in 1..Len(store) |->
                        IF store[i].service_id = req[p].service_id
                        THEN loc[p].db_service ELSE store[i]]
          /\ Raise(p, "400")
          /\ UNCHANGED <<blobs, nextBlob>>
    /\ UNCHANGED <<nextId, cache, req, hist, ex>>

\* lines 150-153: upload the new image, point the reference at it
update_upload(p) ==
    /\ pc[p] = "update_upload"
    /\ \/ /\ ~req[p].image_base64
          /\ pc' = [pc EXCEPT ![p] = "update_commit"]
          /\ UNCHANGED <<blobs, nextBlob, loc, resp>>
       \/ /\ req[p].image_base64
          /\ nextBlob <= MaxBlobs
          /\ LET result == upload_image_cloudinary(nextBlob, "services/images")
             IN  /\ blobs' = blobs \cup {result.public_id}
                 /\ nextBlob' = nextBlob + 1
                 /\ loc' = [loc EXCEPT ![p].update_image = TRUE,
                                       ![p].update_image_url = result.url,
                                       ![p].new_url = result.url]
          /\ pc' = [pc EXCEPT ![p] = "update_commit"]
          /\ UNCHANGED resp
       \/ /\ req[p].image_base64
          /\ loc' = [loc EXCEPT ![p].upload_failed = TRUE]
          /\ Raise(p, "400")
          /\ UNCHANGED <<blobs, nextBlob>>
    /\ UNCHANGED <<store, nextId, cache, req, hist, ex>>

\* lines 156-160: set update_data on the record, commit, refresh.  The commit
\* writes the columns whose value differs from the loaded one; with the row
\* gone the flush or the refresh raises, which FastAPI turns into a 500.
update_commit(p) ==
    /\ pc[p] = "update_commit"
    /\ LET l == loc[p]
           id == req[p].service_id
           name == IF l.update_name # None THEN l.update_name ELSE l.db_service.name
           image_url == IF l.update_image THEN l.update_image_url
                        ELSE l.db_service.image_url
           row == First(id)
           written == [row EXCEPT
                          !.name = IF name # l.loaded.name THEN name ELSE @,
                          !.image_url = IF image_url # l.loaded.image_url
                                        THEN image_url ELSE @]
       IN  IF row = NoRec
           THEN /\ Raise(p, "500")
                /\ UNCHANGED <<store, loc>>
           ELSE /\ store' = [i \in 1..Len(store) |->
                                IF store[i].service_id = id THEN written ELSE store[i]]
                /\ loc' = [loc EXCEPT ![p].db_service = written]
                /\ pc' = [pc EXCEPT ![p] = "update_invalidate"]
                /\ UNCHANGED resp
    /\ UNCHANGED <<nextId, blobs, nextBlob, cache, req, hist, ex>>

\* update_service returning without invalidating the list cache
update_invalidate_keeps_cache(p) ==
    /\ pc[p] = "update_invalidate"
    /\ hist' = [hist EXCEPT !.sinceMutation = TRUE]
    /\ resp' = [resp EXCEPT ![p] =
            [NoResp EXCEPT !.status = "ok", !.body = <<loc[p].db_service>>]]
    /\ pc' = [pc EXCEPT ![p] = "done"]
    /\ UNCHANGED <<store, nextId, blobs, nextBlob, cache, req, loc, ex>>

\* lines 161-162: invalidate the list cache, return the record
update_invalidate(p) ==
    /\ pc[p] = "update_invalidate"
    /\ cache' = invalidate_services_cache
    /\ loc' = Invalidated(loc)
    /\ hist' = [hist EXCEPT !.popFull = TRUE, !.sinceMutation = TRUE, !.raceStale = FALSE]
    /\ resp' = [resp EXCEPT ![p] =
            [NoResp EXCEPT !.status = "ok", !.body = <<loc[p].db_service>>]]
    /\ pc' = [pc EXCEPT ![p] = "done"]
    /\ UNCHANGED <<store, nextId, blobs, nextBlob, req, ex>>

(***************************************************************************)
(* delete_service                                                          *)
(***************************************************************************)
\* lines 283-290: fetch the record
delete_service(p, solo) ==
    /\ Free(p, solo)
    /\ \E id \in 1..MaxId :
        LET db_service == First(id)
        IN  /\ req' = [req EXCEPT ![p] =
                    [NoReq EXCEPT !.op = "delete", !.service_id = id]]
            /\ IF db_service = NoRec
               THEN /\ loc' = [loc EXCEPT ![p] = NoLoc]
                    /\ Raise(p, "404")
               ELSE /\ loc' = [loc EXCEPT ![p] =
                        [NoLoc EXCEPT !.loaded = db_service,
                                      !.db_service = db_service]]
                    /\ pc' = [pc EXCEPT ![p] = "delete_blob"]
                    /\ UNCHANGED resp
    /\ hist' = [hist EXCEPT !.started = @ + 1]
    /\ UNCHANGED <<store, nextId, blobs, nextBlob, cache, ex>>

\* delete_blob letting a failed deletion escape as an error
delete_blob_raises(p) ==
    /\ pc[p] = "delete_blob"
    /\ LET url == loc[p].db_service.image_url
           public_id == extract_public_id(url)
       IN  IF Truthy(url) /\ Truthy(public_id)
           THEN \E o \in delete_image_from_cloudinary(public_id) :
                    /\ blobs' = o.blobs
                    /\ loc' = [loc EXCEPT ![p] =
                            [@ EXCEPT !.public_id = public_id,
                                      !.attempts = @ + 1,
                                      !.deleted_id = IF o.ret THEN public_id ELSE None,
                                      !.del_false = ~o.ret,
                                      !.deletion_results = [k \in {"image_url"} |-> o.ret]]]
                    /\ IF o.ret
                       THEN /\ pc' = [pc EXCEPT ![p] = "delete_commit"]
                            /\ UNCHANGED resp
                       ELSE Raise(p, "500")
           ELSE /\ pc' = [pc EXCEPT ![p] = "delete_commit"]
                /\ UNCHANGED <<blobs, loc, resp>>
    /\ UNCHANGED <<store, nextId, nextBlob, cache, req, hist, ex>>

\* lines 293-298: delete the associated image, keeping the outcome per asset type
delete_blob(p) ==
    /\ pc[p] = "delete_blob"
    /\ LET url == loc[p].db_service.image_url
           public_id == extract_public_id(url)
       IN  IF Truthy(url) /\ Truthy(public_id)
           THEN \E o \in delete_image_from_cloudinary(public_id) :
                    /\ blobs' = o.blobs
                    /\ loc' = [loc EXCEPT ![p] =
                            [@ EXCEPT !.public_id = public_id,
                                      !.attempts = @ + 1,
                                      !.deleted_id = IF o.ret THEN public_id ELSE None,
                                      !.del_false = ~o.ret,
                                      !.deletion_results = [k \in {"image_url"} |-> o.ret]]]
           ELSE UNCHANGED <<blobs, loc>>
    /\ pc' = [pc EXCEPT ![p] = "delete_commit"]
    /\ UNCHANGED <<store, nextId, nextBlob, cache, req, resp, hist, ex>>

\* delete_service keeping the record when its blob could not be deleted
delete_commit_if_blob_deleted(p) ==
    /\ pc[p] = "delete_commit"
    /\ store' = IF loc[p].del_false THEN store
                ELSE Without(store, req[p].service_id)
    /\ pc' = [pc EXCEPT ![p] = "delete_invalidate"]
    /\ UNCHANGED <<nextId, blobs, nextBlob, cache, req, loc, resp, hist, ex>>

\* lines 301-302: delete the record, commit
delete_commit(p) ==
    /\ pc[p] = "delete_commit"
    /\ store' = Without(store, req[p].service_id)
    /\ pc' = [pc EXCEPT ![p] = "delete_invalidate"]
    /\ UNCHANGED <<nextId, blobs, nextBlob, cache, req, loc, resp, hist, ex>>

\* lines 303-314: invalidate the list cache, build the summary
delete_invalidate(p) ==
    /\ pc[p] = "delete_invalidate"
    /\ cache' = invalidate_services_cache
    /\ loc' = Invalidated(loc)
    /\ hist' = [hist EXCEPT !.popFull = TRUE, !.sinceMutation = TRUE, !.raceStale = FALSE]
    /\ LET deletion_results == loc[p].deletion_results
           deleted_assets == {k \in DOMAIN deletion_results : deletion_results[k]}
       IN  resp' = [resp EXCEPT ![p] =
                [NoResp EXCEPT
                    !.status = "ok",
                    !.success = TRUE,
                    !.count = Cardinality(deleted_assets),
                    !.public_id = IF DOMAIN deletion_results = {} THEN None
                                  ELSE CHOOSE k \in DOMAIN deletion_results : TRUE]]
    /\ pc' = [pc EXCEPT ![p] = "done"]
    /\ UNCHANGED <<store, nextId, blobs, nextBlob, req, ex>>

(***************************************************************************)
(* upload_service_image                                                    *)
(***************************************************************************)
\* lines 190-221: upload an image or an icon; no record is touched
upload_service_image(p, solo) ==
    /\ Free(p, solo)
    /\ \E image \in BOOLEAN, is_icon \in BOOLEAN :
        LET folder == IF is_icon THEN "services/icons" ELSE "services/images"
        IN  /\ req' = [req EXCEPT ![p] =
                    [NoReq EXCEPT !.op = "upload_image", !.image_base64 = image,
                                  !.is_icon = is_icon]]
            /\ \/ /\ ~image
                  /\ loc' = [loc EXCEPT ![p] = NoLoc]
                  /\ Raise(p, "400")
                  /\ UNCHANGED <<blobs, nextBlob>>
               \/ /\ image
                  /\ nextBlob <= MaxBlobs
                  /\ LET result == upload_image_cloudinary(nextBlob, folder)
                     IN  /\ blobs' = blobs \cup {result.public_id}
                         /\ nextBlob' = nextBlob + 1
                         /\ loc' = [loc EXCEPT ![p] =
                                [NoLoc EXCEPT !.new_url = result.url]]
                         /\ resp' = [resp EXCEPT ![p] =
                                [NoResp EXCEPT !.status = "ok", !.success = TRUE,
                                               !.url = result.url,
                                               !.public_id = result.public_id]]
                  /\ pc' = [pc EXCEPT ![p] = "done"]
               \/ /\ image
                  /\ loc' = [loc EXCEPT ![p] =
                        [NoLoc EXCEPT !.store0 = store, !.upload_failed = TRUE]]
                  /\ Raise(p, "400")
                  /\ UNCHANGED <<blobs, nextBlob>>
    /\ hist' = [hist EXCEPT !.started = @ + 1]
    /\ UNCHANGED <<store, nextId, cache, ex>>

(***************************************************************************)
(* delete_cloudinary_image                                                 *)
(***************************************************************************)
\* lines 243-250: clean the id, refuse a full URL
delete_cloudinary_image(p, solo) ==
    /\ Free(p, solo)
    /\ \E public_id \in ImageIds :
        LET extracted == extract_public_id(public_id)
            clean_public_id == IF Truthy(extracted) THEN extracted ELSE public_id
        IN  /\ req' = [req EXCEPT ![p] =
                    [NoReq EXCEPT !.op = "delete_image", !.public_id = public_id]]
            /\ loc' = [loc EXCEPT ![p] =
                    [NoLoc EXCEPT !.public_id = clean_public_id]]
            /\ IF Contains(clean_public_id, "http")
               THEN Raise(p, "400")
               ELSE /\ pc' = [pc EXCEPT ![p] = "image_delete"]
                    /\ UNCHANGED resp
    /\ hist' = [hist EXCEPT !.started = @ + 1]
    /\ UNCHANGED <<store, nextId, blobs, nextBlob, cache, ex>>

\* lines 252-264: delete the blob; False is answered with a 404
image_delete(p) ==
    /\ pc[p] = "image_delete"
    /\ \E o \in delete_image_from_cloudinary(loc[p].public_id) :
        /\ blobs' = o.blobs
        /\ IF o.ret
           THEN /\ loc' = [loc EXCEPT ![p].attempts = @ + 1,
                                      ![p].deleted_id = loc[p].public_id]
                /\ resp' = [resp EXCEPT ![p] =
                        [NoResp EXCEPT !.status = "ok", !.success = TRUE,
                                       !.public_id = loc[p].public_id]]
                /\ pc' = [pc EXCEPT ![p] = "done"]
           ELSE /\ loc' = [loc EXCEPT ![p].attempts = @ + 1,
                                      ![p].del_false = TRUE]
                /\ Raise(p, "404")
    /\ UNCHANGED <<store, nextId, nextBlob, cache, req, hist, ex>>

(***************************************************************************)
(* Specifications                                                          *)
(***************************************************************************)
\* a step of a service request that is being handled
Step(p) ==
    \/ create_commit(p) \/ create_invalidate(p)
    \/ list_query(p) \/ list_populate(p)
    \/ update_remove(p) \/ update_upload(p) \/ update_commit(p)
    \/ update_invalidate(p)
    \/ delete_blob(p) \/ delete_commit(p) \/ delete_invalidate(p)
    \/ get_db(p)

\* requests handled one at a time
Next ==
    \E p \in Solo :
        \/ create_service(p, TRUE) \/ read_services(p, TRUE)
        \/ update_service(p, TRUE) \/ delete_service(p, TRUE)
        \/ upload_service_image(p, TRUE)
        \/ delete_cloudinary_image(p, TRUE) \/ image_delete(p)
        \/ Step(p)

Spec == Init /\ [][Next]_vars

\* a list request and a mutation of the service records handled by concurrently
\* scheduled tasks (the two image-only handlers touch neither the store nor
\* the cache)
NextConc ==
    \/ \E p \in Readers : read_services(p, FALSE)
    \/ \E p \in Writers :
            \/ create_service(p, FALSE) \/ update_service(p, FALSE)
            \/ delete_service(p, FALSE)
    \/ \E p \in Procs : Step(p)

SpecConc == Init /\ [][NextConc]_vars

(***************************************************************************)
(* extract_public_id on drawn references                                   *)
(***************************************************************************)
Hosts == {"https://res.cloudinary.com", "https://host"}
Markers == {"/upload/", "/private/"}
Versions == {"", "v123/"}
Folders == {"services/images/", "videos/", ""}
Ids == {"abc", "b1"}
Exts == {".jpg", ""}
BareIds == {"plain_id.png", "abc", "b1.jpg"}
Others ==
    {"not a valid url", "", "https://res.cloudinary.com/demo/image/upload",
     "https://res.cloudinary.com/demo/image/upload/", "res.cloudinary.com"}

\* <host>/demo/image<marker>[<version>]<folder><id><ext>
References ==
    {[kind |-> "reference", host |-> h, marker |-> m, version |-> v, folder |-> f,
      id |-> i, ext |-> e, url |-> h \o "/demo/image" \o m \o v \o f \o i \o e,
      out |-> "unset"] :
        h \in Hosts, m \in Markers, v \in Versions, f \in Folders, i \in Ids,
        e \in Exts}

Raw(kind, S) ==
    {[kind |-> kind, host |-> "", marker |-> "", version |-> "", folder |-> "",
      id |-> "", ext |-> "", url |-> u, out |-> "unset"] : u \in S}

InitExtract ==
    /\ store = <<>>
    /\ nextId = 1
    /\ blobs = {}
    /\ nextBlob = 1
    /\ cache = invalidate_services_cache
    /\ pc = [p \in Procs |-> "idle"]
    /\ req = [p \in Procs |-> NoReq]
    /\ loc = [p \in Procs |-> NoLoc]
    /\ resp = [p \in Procs |-> NoResp]
    /\ hist = NoHist
    /\ ex \in References \cup Raw("bare", BareIds) \cup Raw("other", Others)

apply_extract ==
    /\ ex.out = "unset"
    /\ ex' = [ex EXCEPT !.out = extract_public_id(ex.url)]
    /\ UNCHANGED <<store, nextId, blobs, nextBlob, cache, pc, req, loc, resp, hist>>

SpecExtract == InitExtract /\ [][apply_extract]_vars

(***************************************************************************)
(* Properties                                                              *)
(***************************************************************************)
Done(p) == pc[p] = "done"

\* no request is between two of its steps
Quiescent == \A p \in Procs : pc[p] \in {"idle", "done"}

\* url is the secure URL of an asset that exists on the host
Dereferenceable(url) ==
    \E n \in 1..(nextBlob - 1), folder \in UploadFolders :
        public_id_of(n, folder) \in blobs /\ secure_url(n, folder) = url

\* the text of s before its first '.'
BeforeFirstDot(s) ==
    IF \E i \in 1..Len(s) : SubSeq(s, i, i) = "."
    THEN SubSeq(s, 1, (CHOOSE i \in 1..Len(s) :
                            /\ SubSeq(s, i, i) = "."
                            /\ \A j \in 1..(i - 1) : SubSeq(s, j, j) # ".") - 1)
    ELSE s

\* s has no path segment 'upload', or nothing follows its first one
NoPathAfterUpload(s) ==
    LET w == "/" \o s \o "/"
        at(i) == SubSeq(w, i, i + 7) = "/upload/"
    IN  \A i \in 1..(Len(w) - 7) :
            (at(i) /\ \A j \in 1..(i - 1) : ~at(j)) => i + 7 = Len(w)

\* C1: whenever no request is mid-flight, every service record's image
\* reference is null or refers to a blob that still exists in the Blob Store.
C1_NoDanglingReference ==
    Quiescent =>
        \A i \in 1..Len(store) :
            store[i].image_url = None \/ Dereferenceable(store[i].image_url)

\* C2: with requests handled one at a time, a successful create, update or
\* delete returns with the list cache invalid, and the first list call after it
\* is served from the Record Store: it misses the cache and returns the store's
\* current page (or NotFound for an empty page, or the engine's error for a
\* negative limit).
C2_NextListReflectsMutation ==
    \A p \in Procs :
        /\ (Done(p) /\ req[p].op \in {"create", "update", "delete"}
                /\ resp[p].status = "ok")
            => ~cache.valid
        /\ (Done(p) /\ req[p].op = "list" /\ loc[p].after_mutation)
            => /\ ~loc[p].hit
               /\ resp[p].status = "ok"
                    => resp[p].body = Rows(store, loc[p].skip, loc[p].limit)
               /\ resp[p].status # "ok"
                    => \/ /\ resp[p].status = "404"
                          /\ Rows(store, loc[p].skip, loc[p].limit) = <<>>
                       \/ /\ resp[p].status = "500"
                          /\ loc[p].limit < 0

\* a mutation succeeded and the list call after it returned records
C2_Witness ==
    \E p \in Procs :
        /\ Done(p) /\ req[p].op = "list" /\ loc[p].after_mutation
        /\ resp[p].status = "ok" /\ Len(resp[p].body) > 0

\* C3: a valid list cache holds the full unpaginated listing of the Record
\* Store as of its population, so a list call served from the cache returns the
\* page a direct store query with its offset and limit would.
C3_CacheHoldsFullListing ==
    /\ cache.valid => hist.popFull
    /\ \A p \in Procs :
        (Done(p) /\ req[p].op = "list" /\ loc[p].hit)
            => resp[p].body = Rows(store, loc[p].skip, loc[p].limit)

\* C4: a create or update whose blob upload fails ends with the upload error
\* and leaves the Record Store exactly as it was when the request arrived.
C4_UploadFailureLeavesStore ==
    \A p \in Procs :
        (Done(p) /\ loc[p].upload_failed)
            => /\ resp[p].status = "400"
               /\ store = loc[p].store0

\* an update carrying a field change and remove_image ended on an upload error
C4_Witness ==
    \E p \in Procs :
        /\ Done(p) /\ req[p].op = "update" /\ loc[p].upload_failed
        /\ req[p].name # None /\ req[p].name # loc[p].loaded.name
        /\ req[p].remove_image /\ loc[p].deleted_id # None

\* an update with remove_image on a record with an image reference has ended,
\* and its blob deletion did not succeed
RemoveFailed(p) ==
    /\ Done(p) /\ req[p].op = "update" /\ req[p].remove_image
    /\ loc[p].loaded.image_url # None
    /\ loc[p].deleted_id = None

\* C5 as stated: after an update with remove_image whose blob deletion failed,
\* the record's image reference equals the one before the update, whatever else
\* the payload carries, and the update raised no error for the sub-step.
C5_RemoveFailureKeepsReference ==
    \A p \in Procs :
        RemoveFailed(p)
            => First(req[p].service_id).image_url = loc[p].loaded.image_url

\* C5 amended: after an update with remove_image whose blob deletion failed, no
\* error is raised for the sub-step; without a new image payload the update
\* succeeds with the image reference unchanged; with one, the upload still runs
\* and the reference becomes the new URL, or the update ends with the upload
\* error and the reference unchanged.
C5_RemoveFailureKeepsReferenceUnlessReplaced ==
    \A p \in Procs :
        RemoveFailed(p)
            => LET after == First(req[p].service_id).image_url
                   before == loc[p].loaded.image_url
               IN  /\ ~req[p].image_base64
                        => resp[p].status = "ok" /\ after = before
                   /\ (req[p].image_base64 /\ resp[p].status = "ok")
                        => after = loc[p].new_url /\ after # before
                   /\ (req[p].image_base64 /\ resp[p].status # "ok")
                        => loc[p].upload_failed /\ after = before

\* the blob deletion returned False and the update went on to succeed
C5_Witness ==
    \E p \in Procs :
        /\ RemoveFailed(p) /\ loc[p].del_false /\ ~req[p].image_base64
        /\ resp[p].status = "ok"
        /\ First(req[p].service_id).image_url = loc[p].loaded.image_url

\* C6: a delete of an existing record with a non-null image reference attempts
\* the blob delete exactly once and leaves the record absent from the Record
\* Store, whatever the blob delete returned.
C6_DeleteAttemptsBlobOnce ==
    \A p \in Procs :
        (Done(p) /\ req[p].op = "delete" /\ loc[p].loaded.image_url # None)
            => /\ loc[p].attempts = 1
               /\ First(req[p].service_id) = NoRec
               /\ resp[p].status = "ok"

\* the blob delete returned False and the record is gone all the same
C6_Witness ==
    \E p \in Procs :
        /\ Done(p) /\ req[p].op = "delete" /\ loc[p].loaded.image_url # None
        /\ loc[p].del_false /\ loc[p].attempts = 1
        /\ First(req[p].service_id) = NoRec

\* C7: the summary of a successful service delete has public_id equal to the
\* blob id that was deleted from the Blob Store, null when none was, and counts
\* the blob deletes that returned true.
C7_SummaryNamesDeletedBlob ==
    \A p \in Procs :
        (Done(p) /\ req[p].op = "delete" /\ resp[p].status = "ok")
            => /\ resp[p].public_id = loc[p].deleted_id
               /\ resp[p].count = IF loc[p].deleted_id # None THEN 1 ELSE 0

\* C8 as stated: in no operation that deletes a blob does a failed blob
\* deletion surface to the caller as an error outcome.
C8_DeletionFailureNeverAnError ==
    \A p \in Procs :
        (Done(p) /\ loc[p].del_false /\ ~loc[p].upload_failed)
            => resp[p].status = "ok"

\* C8 amended: in update with remove_image and in delete service a failed blob
\* deletion is a plain False and the operation goes on to succeed (unless its
\* upload fails); in delete-image-by-reference the False is answered with
\* NotFound.
C8_DeletionFailureSwallowedExceptByImageDelete ==
    \A p \in Procs :
        /\ (Done(p) /\ req[p].op \in {"update", "delete"} /\ loc[p].del_false
                /\ ~loc[p].upload_failed)
            => resp[p].status = "ok"
        /\ (Done(p) /\ req[p].op = "delete_image" /\ loc[p].del_false)
            => resp[p].status = "404"

\* delete-image-by-reference met a failed deletion
C8_Witness ==
    \E p \in Procs :
        /\ Done(p) /\ req[p].op = "delete_image" /\ loc[p].del_false
        /\ loc[p].attempts = 1
        /\ resp[p].status = "404"

\* C9 as stated: a canonical reference on any host yields <folder>/<id>; a bare
\* id loses only its extension; anything else without the /upload/ marker
\* yields none.
C9_IdFromReference ==
    ex.out # "unset" =>
        /\ (ex.kind = "reference" /\ ex.marker = "/upload/" /\ ex.folder # ""
                /\ ex.ext # "")
            => ex.out = ex.folder \o ex.id
        /\ ex.kind = "bare" => ex.out = BeforeFirstDot(ex.url)
        /\ (ex.kind = "other" /\ ~Contains(ex.url, "/upload/")) => ex.out = None

\* C9 amended: a reference that names the host res.cloudinary.com and has the
\* form .../upload/[v<version>/][<folder>/]<id>[.<ext>] yields <folder>/<id>,
\* provided a version segment is present or the path after /upload/ does not
\* start with 'v'; every non-empty input that does not name that host, a
\* canonical reference on another host and 'not a valid url' included, yields
\* its text before the first '.', never none; none is returned exactly for the
\* empty input and for an input naming that host with no 'upload' path segment
\* or nothing after it.
C9_IdFromCloudinaryReference ==
    ex.out # "unset" =>
        /\ (ex.kind = "reference" /\ ex.host = "https://res.cloudinary.com"
                /\ ex.marker = "/upload/"
                /\ (ex.version # "" \/ ~StartsWith(ex.folder \o ex.id, "v")))
            => ex.out = ex.folder \o ex.id
        /\ (ex.url # "" /\ ~Contains(ex.url, "res.cloudinary.com"))
            => ex.out = BeforeFirstDot(ex.url) /\ ex.out # None
        /\ ex.out = None
            <=> \/ ex.url = ""
                \/ /\ Contains(ex.url, "res.cloudinary.com")
                   /\ NoPathAfterUpload(ex.url)

\* the versioned canonical reference of the host has been parsed
C9_Witness ==
    /\ ex.url = "https://res.cloudinary.com/demo/image/upload/v123/services/images/abc.jpg"
    /\ ex.out = "services/images/abc"

\* C10: with a list request and a mutation running concurrently, a populate
\* that lands after the mutation's invalidate with a page read before the
\* commit leaves the cache valid with that page, which the store no longer
\* holds.
C10_LatePopulateLeavesStaleCache ==
    [][\A p \in Procs :
        (/\ pc[p] = "list_populate" /\ pc'[p] = "done"
         /\ loc[p].invalidated
         /\ loc[p].results # Rows(store, loc[p].skip, loc[p].limit))
            => /\ cache'.valid
               /\ cache'.content = loc[p].results
               /\ cache'.content # Rows(store', loc[p].skip, loc[p].limit)]_vars

\* after such a populate, with the mutation over, a later list call was served
\* the stale page from the cache
C10_Witness ==
    /\ hist.raceStale
    /\ cache.valid
    /\ \E p \in Procs :
        /\ Done(p) /\ req[p].op = "list" /\ loc[p].hit
        /\ resp[p].body # Rows(store, loc[p].skip, loc[p].limit)
        /\ \A q \in Procs \ {p} : pc[q] = "idle"

====
